---- MODULE Spec2Model ----
(***************************************************************************)
(* A model of envd's docker client (package docker): the lifecycle         *)
(* operations Destroy, PauseContainer, ResumeContainer, Exists, IsRunning, *)
(* the readiness wait WaitUntilRunning and the container specification     *)
(* StartEnvd assembles, over a container host that is shared with other    *)
(* actors and may fail.                                                    *)
(*                                                                         *)
(* Four specifications share the variables:                                *)
(*   Spec      the lifecycle operations of one caller against the host;    *)
(*   SpecWait  WaitUntilRunning against a clock, the host and the caller's *)
(*             context;                                                    *)
(*   SpecBuild the specification StartEnvd builds from its arguments;      *)
(*   SpecStart StartEnvd as a whole: build, create, start, inspect, wait,  *)
(*             and what a later StartEnvd of the same name finds.          *)
(***************************************************************************)
EXTENDS Integers, Sequences, FiniteSets, TLC

VARIABLES
    host,       \* container name -> state of that container on the host
    pc,         \* position of the lifecycle caller: "idle" or "destroy_remove"
    cur,        \* the call in progress (Destroy between Kill and Remove)
    last,       \* the last completed lifecycle call
    prev,       \* a summary of the completed call before it
    now,        \* the clock, in ticks of half a second
    wpc,        \* position of WaitUntilRunning
    w,          \* locals and history of the WaitUntilRunning call
    cancelled,  \* the caller's context (ctx) has been cancelled
    spc,        \* position of StartEnvd: "idle", "built", "created", "started",
                \* "inspected", "waiting", "done", "failed" or "panicked"
    req,        \* the arguments of the StartEnvd call, and what GetFreePort answers
    built,      \* what StartEnvd has assembled: config, hostConfig or the error
    run         \* the host calls of the StartEnvd call and what it returned

lifeVars == <<pc, cur, last, prev>>
waitVars == <<now, wpc, w, cancelled>>
buildVars == <<spc, req, built, run>>
vars == <<host, pc, cur, last, prev, now, wpc, w, cancelled, spc, req, built, run>>

(***************************************************************************)
(* The container host.  A container is absent, created (never started),    *)
(* running, paused or exited.                                              *)
(***************************************************************************)
Names == {"envd", "other"}
ContainerStates == {"absent", "created", "running", "paused", "exited"}

(* The phrases the client looks for in the text of a host error. *)
PhNotRunning == "is not running"
PhNoSuch == "No such container"
PhAlreadyPaused == "is already paused"
PhNotPaused == "is not paused"
PhPortAllocated == "port is already allocated"

(* A host error: the marker phrases its text contains, and whether its     *)
(* type is the client library's not-found error.                           *)
Nil == [isNil |-> TRUE, phrases |-> {}, notFound |-> FALSE]
HostErr(ph, nf) == [isNil |-> FALSE, phrases |-> ph, notFound |-> nf]
ErrNoSuch == HostErr({PhNoSuch}, TRUE)
ErrNotRunning == HostErr({PhNotRunning}, FALSE)
ErrAlreadyPaused == HostErr({PhAlreadyPaused}, FALSE)
ErrNotPaused == HostErr({PhNotPaused}, FALSE)
ErrConflict == HostErr({"You cannot remove a running container"}, FALSE)
ErrHostDown == HostErr({"Cannot connect to the Docker daemon"}, FALSE)
(* ctx.Err() of a context past its deadline, and of a cancelled one. *)
ErrDeadline == HostErr({"context deadline exceeded"}, FALSE)
ErrCanceled == HostErr({"context canceled"}, FALSE)

(* strings.Contains(errors.UnwrapAll(err).Error(), phrase) *)
Contains(err, phrase) == phrase \in err.phrases
(* client.IsErrNotFound(err) *)
IsErrNotFound(err) == err.notFound

(* What the host answers to each call on a container in state s: the error *)
(* and the container's state afterwards.                                   *)
ContainerKill(s) ==
    CASE s = "absent" -> [err |-> ErrNoSuch, st |-> s]
      [] s \in {"created", "exited"} -> [err |-> ErrNotRunning, st |-> s]
      [] OTHER -> [err |-> Nil, st |-> "exited"]

ContainerRemove(s) ==
    CASE s = "absent" -> [err |-> ErrNoSuch, st |-> s]
      [] s \in {"running", "paused"} -> [err |-> ErrConflict, st |-> s]
      [] OTHER -> [err |-> Nil, st |-> "absent"]

ContainerPause(s) ==
    CASE s = "absent" -> [err |-> ErrNoSuch, st |-> s]
      [] s = "paused" -> [err |-> ErrAlreadyPaused, st |-> s]
      [] s = "running" -> [err |-> Nil, st |-> "paused"]
      [] OTHER -> [err |-> ErrNotRunning, st |-> s]

ContainerUnpause(s) ==
    CASE s = "absent" -> [err |-> ErrNoSuch, st |-> s]
      [] s = "paused" -> [err |-> Nil, st |-> "running"]
      [] OTHER -> [err |-> ErrNotPaused, st |-> s]

(* ContainerInspect: the container's State.Running is set while it runs,   *)
(* paused or not.                                                          *)
ContainerInspect(s) ==
    IF s = "absent"
    THEN [err |-> ErrNoSuch, st |-> s, running |-> FALSE]
    ELSE [err |-> Nil, st |-> s, running |-> s \in {"running", "paused"}]

(* Every host call either gets the host's answer or fails on the way       *)
(* (daemon unreachable), leaving the container as it was.                  *)
Replies(answer, s) ==
    { [fault |-> FALSE, err |-> answer.err, st |-> answer.st],
      [fault |-> TRUE, err |-> ErrHostDown, st |-> s] }

(***************************************************************************)
(* Errors the client returns: nil, errors.New(msg) or errors.Wrap(cause,   *)
(* msg).                                                                   *)
(***************************************************************************)
NoError == [kind |-> "nil", msg |-> "", cause |-> Nil]
New(msg) == [kind |-> "new", msg |-> msg, cause |-> Nil]
Wrap(err, msg) == [kind |-> "wrap", msg |-> msg, cause |-> err]
(* A host error returned as it came. *)
Raw(err) == [kind |-> "raw", msg |-> "", cause |-> err]

NoCall ==
    [op |-> "none", name |-> "",
     pre |-> "absent",      \* the container's state when the (first) host call arrived
     post |-> "absent",     \* its state when the last host call returned
     herr |-> Nil,          \* the error of the first host call
     fault |-> FALSE,       \* a host call failed on the way
     removes |-> 0,         \* Destroy: the Remove calls issued
     rpre |-> "absent",     \* Destroy: the container's state when Remove arrived
     rerr |-> Nil,          \* Destroy: the error of Remove
     ret |-> "", val |-> FALSE, err |-> NoError]

(* The record of a call of op on name, issued when the container was in    *)
(* state s.                                                                *)
Call(op, name, s) == [NoCall EXCEPT !.op = op, !.name = name, !.pre = s, !.post = s]

(* What is kept of the call before the last one. *)
Summary(rec) == [op |-> rec.op, name |-> rec.name, ret |-> rec.ret, ok |-> rec.err = NoError]

Complete(rec) ==
    /\ UNCHANGED <<waitVars, buildVars>>
    /\ last' = rec
    /\ prev' = Summary(last)
    /\ pc' = "idle"
    /\ cur' = NoCall

(***************************************************************************)
(* Lifecycle operations.                                                   *)
(***************************************************************************)

(* DestroyKillOutcome without the early return for a container that is not *)
(* there: the call falls through to Remove.                                *)
DestroyKillOutcomeFallsThrough(err) ==
    IF err.isNil THEN "remove"
    ELSE IF Contains(err, PhNotRunning) \/ Contains(err, PhNoSuch) THEN "remove"
    ELSE "fatal"

(* DestroyKillOutcome treating "is not running" as any other failure. *)
DestroyKillOutcomeNotRunningFatal(err) ==
    IF err.isNil THEN "remove"
    ELSE IF Contains(err, PhNoSuch) THEN "success"
    ELSE "fatal"

(* DestroyKillOutcome without the default case: every other failure of     *)
(* Kill is passed over as "is not running" is.                             *)
DestroyKillOutcomeNeverFatal(err) ==
    IF err.isNil THEN "remove"
    ELSE IF Contains(err, PhNoSuch) THEN "success"
    ELSE "remove"

(* Destroy, after ContainerKill returned err: go on to Remove, return      *)
(* success at once, or return the wrapped error.                           *)
DestroyKillOutcome(err) ==
    IF err.isNil THEN "remove"
    ELSE IF Contains(err, PhNotRunning) THEN "remove"
    ELSE IF Contains(err, PhNoSuch) THEN "success"
    ELSE "fatal"

(* Destroy, first half: ContainerKill(name, "KILL") and its classification. *)
DestroyKill(name) ==
    /\ pc = "idle"
    /\ \E r \in Replies(ContainerKill(host[name]), host[name]) :
         LET rec == [Call("Destroy", name, host[name]) EXCEPT
                        !.herr = r.err, !.post = r.st, !.fault = r.fault]
             out == DestroyKillOutcome(r.err)
         IN /\ host' = [host EXCEPT ![name] = r.st]
            /\ CASE out = "remove" ->
                      /\ pc' = "destroy_remove"
                      /\ cur' = rec
                      /\ UNCHANGED <<last, prev, waitVars, buildVars>>
                 [] out = "success" ->
                      Complete([rec EXCEPT !.ret = "", !.err = NoError])
                 [] OTHER ->
                      Complete([rec EXCEPT !.ret = "",
                                           !.err = Wrap(r.err, "failed to kill the container")])

(* DestroyRemove passing over a Remove that finds no container, as the     *)
(* Kill before it does.                                                    *)
DestroyRemoveToleratesNotFound ==
    /\ pc = "destroy_remove"
    /\ \E r \in Replies(ContainerRemove(host[cur.name]), host[cur.name]) :
         LET rec == [cur EXCEPT !.rerr = r.err, !.rpre = host[cur.name], !.post = r.st,
                                   !.fault = r.fault, !.removes = cur.removes + 1]
         IN /\ host' = [host EXCEPT ![cur.name] = r.st]
            /\ IF r.err.isNil \/ Contains(r.err, PhNoSuch)
               THEN Complete([rec EXCEPT !.ret = cur.name, !.err = NoError])
               ELSE Complete([rec EXCEPT !.ret = "",
                                         !.err = Wrap(r.err, "failed to remove the container")])

(* Destroy, second half: ContainerRemove(name) and the return. *)
DestroyRemove ==
    /\ pc = "destroy_remove"
    /\ \E r \in Replies(ContainerRemove(host[cur.name]), host[cur.name]) :
         LET rec == [cur EXCEPT !.rerr = r.err, !.rpre = host[cur.name], !.post = r.st,
                                   !.fault = r.fault, !.removes = cur.removes + 1]
         IN /\ host' = [host EXCEPT ![cur.name] = r.st]
            /\ IF r.err.isNil
               THEN Complete([rec EXCEPT !.ret = cur.name, !.err = NoError])
               ELSE Complete([rec EXCEPT !.ret = "",
                                         !.err = Wrap(r.err, "failed to remove the container")])

(* PauseResult without the "is already paused" case. *)
PauseResultNoAlreadyPaused(name, err) ==
    IF err.isNil THEN [ret |-> name, err |-> NoError]
    ELSE IF Contains(err, PhNoSuch) THEN [ret |-> "", err |-> New("container not found")]
    ELSE [ret |-> "", err |-> Wrap(err, "failed to pause container")]

(* What PauseContainer returns for the error ContainerPause gave. *)
PauseResult(name, err) ==
    IF err.isNil THEN [ret |-> name, err |-> NoError]
    ELSE IF Contains(err, PhAlreadyPaused) THEN [ret |-> "", err |-> NoError]
    ELSE IF Contains(err, PhNoSuch) THEN [ret |-> "", err |-> New("container not found")]
    ELSE [ret |-> "", err |-> Wrap(err, "failed to pause container")]

PauseContainer(name) ==
    /\ pc = "idle"
    /\ \E r \in Replies(ContainerPause(host[name]), host[name]) :
         LET res == PauseResult(name, r.err)
         IN /\ host' = [host EXCEPT ![name] = r.st]
            /\ Complete([Call("Pause", name, host[name]) EXCEPT
                           !.herr = r.err, !.post = r.st, !.fault = r.fault, !.ret = res.ret, !.err = res.err])

(* ResumeResult looking for the phrase of Pause instead of "is not paused". *)
ResumeResultWrongPhrase(name, err) ==
    IF err.isNil THEN [ret |-> name, err |-> NoError]
    ELSE IF Contains(err, PhAlreadyPaused) THEN [ret |-> "", err |-> NoError]
    ELSE IF Contains(err, PhNoSuch) THEN [ret |-> "", err |-> New("container not found")]
    ELSE [ret |-> "", err |-> Wrap(err, "failed to resume container")]

(* ResumeResult treating a missing container as Destroy does: success. *)
ResumeResultAbsentIsSuccess(name, err) ==
    IF err.isNil THEN [ret |-> name, err |-> NoError]
    ELSE IF Contains(err, PhNotPaused) \/ Contains(err, PhNoSuch) THEN [ret |-> "", err |-> NoError]
    ELSE [ret |-> "", err |-> Wrap(err, "failed to resume container")]

(* What ResumeContainer returns for the error ContainerUnpause gave. *)
ResumeResult(name, err) ==
    IF err.isNil THEN [ret |-> name, err |-> NoError]
    ELSE IF Contains(err, PhNotPaused) THEN [ret |-> "", err |-> NoError]
    ELSE IF Contains(err, PhNoSuch) THEN [ret |-> "", err |-> New("container not found")]
    ELSE [ret |-> "", err |-> Wrap(err, "failed to resume container")]

ResumeContainer(name) ==
    /\ pc = "idle"
    /\ \E r \in Replies(ContainerUnpause(host[name]), host[name]) :
         LET res == ResumeResult(name, r.err)
         IN /\ host' = [host EXCEPT ![name] = r.st]
            /\ Complete([Call("Resume", name, host[name]) EXCEPT
                           !.herr = r.err, !.post = r.st, !.fault = r.fault, !.ret = res.ret, !.err = res.err])

(* GetContainer is ContainerInspect: the replies it may get for a container *)
(* in state s.                                                             *)
GetContainer(s) == ContainerInspect(s)

InspectReplies(s) ==
    { [fault |-> FALSE, err |-> GetContainer(s).err, st |-> s, running |-> GetContainer(s).running],
      [fault |-> TRUE, err |-> ErrHostDown, st |-> s, running |-> FALSE] }

(* What Exists returns for the reply r of GetContainer. *)
ExistsResult(r) ==
    IF ~r.err.isNil
    THEN IF IsErrNotFound(r.err)
         THEN [val |-> FALSE, err |-> NoError]
         ELSE [val |-> FALSE, err |-> Raw(r.err)]
    ELSE [val |-> TRUE, err |-> NoError]

(* IsRunningResult without the not-found case: absence is an error. *)
IsRunningResultAbsentIsError(r) ==
    IF ~r.err.isNil
    THEN [val |-> FALSE, err |-> Raw(r.err)]
    ELSE [val |-> r.running, err |-> NoError]

(* What IsRunning returns for the reply r of GetContainer. *)
IsRunningResult(r) ==
    IF ~r.err.isNil
    THEN IF IsErrNotFound(r.err)
         THEN [val |-> FALSE, err |-> NoError]
         ELSE [val |-> FALSE, err |-> Raw(r.err)]
    ELSE [val |-> r.running, err |-> NoError]

Exists(name) ==
    /\ pc = "idle"
    /\ \E r \in InspectReplies(host[name]) :
         LET res == ExistsResult(r)
         IN /\ host' = [host EXCEPT ![name] = r.st]
            /\ Complete([Call("Exists", name, host[name]) EXCEPT
                           !.herr = r.err, !.post = r.st, !.fault = r.fault, !.val = res.val, !.err = res.err])

IsRunning(name) ==
    /\ pc = "idle"
    /\ \E r \in InspectReplies(host[name]) :
         LET res == IsRunningResult(r)
         IN /\ host' = [host EXCEPT ![name] = r.st]
            /\ Complete([Call("IsRunning", name, host[name]) EXCEPT
                           !.herr = r.err, !.post = r.st, !.fault = r.fault, !.val = res.val, !.err = res.err])

(***************************************************************************)
(* The host is shared: at any moment another actor may create, start,      *)
(* pause, unpause, stop or remove a container.                             *)
(***************************************************************************)
OtherActorMoves(s) ==
    CASE s = "absent" -> {"created"}
      [] s = "created" -> {"running", "absent"}
      [] s = "running" -> {"paused", "exited", "absent"}
      [] s = "paused" -> {"running", "exited", "absent"}
      [] OTHER -> {"running", "absent"}

OtherActorMove(name) ==
    \E s \in OtherActorMoves(host[name]) : host' = [host EXCEPT ![name] = s]

OtherActor(name) ==
    /\ OtherActorMove(name)
    /\ UNCHANGED <<lifeVars, waitVars, buildVars>>

(***************************************************************************)
(* WaitUntilRunning.  Time is counted in ticks of half a second.  Local    *)
(* steps take no time; a host call may take any time, and is cut off with  *)
(* the context's error as soon as the context it was given is done.        *)
(***************************************************************************)
interval == 2
MaxTimeout == 5
MaxTime == 9

NoWait ==
    [name |-> "", timeout |-> 0,
     deadline |-> 0,        \* when ctxTimeout expires
     timerAt |-> 0,         \* when the time.After(interval) of this round fires
     polls |-> 0,           \* IsRunning calls issued
     pollAt |-> -1,         \* when the last of them was issued
     prevPollAt |-> -1,     \* when the one before it was issued
     pollFailed |-> FALSE,  \* an IsRunning call returned an error
     absentPolls |-> 0,     \* IsRunning calls that found no container
     diagErr |-> Nil,       \* the error of the diagnostic GetContainer
     diags |-> 0,           \* diagnostic GetContainer calls issued
     latePolls |-> 0,       \* IsRunning calls issued after ctx was cancelled
     sawRunning |-> FALSE,  \* a poll observed the container running
     cancelAt |-> -1,       \* when ctx was cancelled
     retAt |-> -1,          \* when the call returned or panicked
     err |-> NoError]       \* the error returned

ErrTimeout == New("timeout: container did not start")

(* <-ctxTimeout.Done() can proceed: the deadline has passed or the parent  *)
(* context is cancelled.                                                   *)
CtxTimeoutDone == cancelled \/ now >= w.deadline
CtxTimeoutErr == IF cancelled THEN ErrCanceled ELSE ErrDeadline

(* ctxTimeout, cancel := context.WithTimeout(ctx, timeout), and the first  *)
(* time.After(interval).                                                   *)
(* WaitBegin with a first tick that is due at once. *)
WaitBeginImmediateTick(name, timeout) ==
    /\ wpc' = "select"
    /\ w' = [NoWait EXCEPT !.name = name, !.timeout = timeout,
                           !.deadline = now + timeout, !.timerAt = now]

WaitBegin(name, timeout) ==
    /\ wpc' = "select"
    /\ w' = [NoWait EXCEPT !.name = name, !.timeout = timeout,
                           !.deadline = now + timeout, !.timerAt = now + interval]

(* A call of WaitUntilRunning(ctx, name, timeout). *)
WaitStart(name, timeout) ==
    /\ wpc = "idle"
    /\ WaitBegin(name, timeout)
    /\ UNCHANGED <<host, lifeVars, buildVars, now, cancelled>>

(* case <-time.After(interval): IsRunning(ctxTimeout, name) is issued. *)
SelectTimer ==
    /\ wpc = "select"
    /\ now >= w.timerAt
    /\ wpc' = "polling"
    /\ w' = [w EXCEPT !.polls = w.polls + 1,
                      !.pollAt = now, !.prevPollAt = w.pollAt,
                      !.latePolls = w.latePolls + (IF cancelled THEN 1 ELSE 0)]
    /\ UNCHANGED <<host, lifeVars, buildVars, now, cancelled>>

(* The return of WaitUntilRunning with err. *)
WaitReturn(rec, err) ==
    /\ wpc' = "done"
    /\ w' = [rec EXCEPT !.err = err, !.retAt = now]

(* AfterPoll doing what its comment says when IsRunning fails: "Has not    *)
(* yet started. Keep waiting."                                             *)
AfterPollKeepsWaiting(rec, res) ==
    IF res.err # NoError
    THEN /\ wpc' = "select"
         /\ w' = [rec EXCEPT !.pollFailed = TRUE, !.timerAt = now + interval]
    ELSE IF res.val
    THEN WaitReturn([rec EXCEPT !.sawRunning = TRUE], NoError)
    ELSE /\ wpc' = "select"
         /\ w' = [rec EXCEPT !.timerAt = now + interval]

(* What the poll does with IsRunning's result res, rec being the call's    *)
(* record: return the wrapped error, return nil, or go round the loop with *)
(* a new time.After.                                                       *)
AfterPoll(rec, res) ==
    IF res.err # NoError
    THEN WaitReturn([rec EXCEPT !.pollFailed = TRUE],
                    Wrap(res.err.cause, "failed to check if container is running"))
    ELSE IF res.val
    THEN WaitReturn([rec EXCEPT !.sawRunning = TRUE], NoError)
    ELSE /\ wpc' = "select"
         /\ w' = [rec EXCEPT !.timerAt = now + interval]

(* The replies IsRunning's GetContainer(ctxTimeout) may get now: once      *)
(* ctxTimeout is done, its error.                                          *)
PollReplies ==
    IF CtxTimeoutDone
    THEN {[fault |-> TRUE, err |-> CtxTimeoutErr, st |-> host[w.name], running |-> FALSE]}
    ELSE InspectReplies(host[w.name])

(* IsRunning returns and the poll is acted on. *)
PollReturn ==
    /\ wpc = "polling"
    /\ \E r \in PollReplies :
         AfterPoll([w EXCEPT !.absentPolls =
                                w.absentPolls + (IF IsErrNotFound(r.err) THEN 1 ELSE 0)],
                   IsRunningResult(r))
    /\ UNCHANGED <<host, lifeVars, buildVars, now, cancelled>>

(* case <-ctxTimeout.Done(): the diagnostic GetContainer(ctx, name) is     *)
(* issued, with the caller's context.                                      *)
SelectDone ==
    /\ wpc = "select"
    /\ CtxTimeoutDone
    /\ wpc' = "diag"
    /\ w' = [w EXCEPT !.diags = w.diags + 1]
    /\ UNCHANGED <<host, lifeVars, buildVars, now, cancelled>>

(* The replies the diagnostic GetContainer(ctx) may get now: once ctx is   *)
(* cancelled, its error.                                                   *)
DiagReplies ==
    IF cancelled
    THEN {[fault |-> TRUE, err |-> ErrCanceled, st |-> host[w.name], running |-> FALSE]}
    ELSE InspectReplies(host[w.name])

(* The diagnostic inspection returns.  Its error is only logged; then      *)
(* container.State is read.  types.ContainerJSON embeds *ContainerJSONBase,*)
(* which holds State and which ContainerInspect leaves nil when it fails:  *)
(* that read panics.  Otherwise the timeout error is returned.             *)
DiagReturn ==
    /\ wpc = "diag"
    /\ \E r \in DiagReplies :
         IF r.err.isNil
         THEN WaitReturn(w, ErrTimeout)
         ELSE /\ wpc' = "panicked"
              /\ w' = [w EXCEPT !.retAt = now, !.diagErr = r.err]
    /\ UNCHANGED <<host, lifeVars, buildVars, now, cancelled>>

(* The caller cancels ctx while the wait is going on. *)
Cancel ==
    /\ wpc \in {"select", "polling", "diag"}
    /\ ~cancelled
    /\ cancelled' = TRUE
    /\ w' = [w EXCEPT !.cancelAt = now]
    /\ UNCHANGED <<host, lifeVars, buildVars, now, wpc>>

(* The call is in progress; the call has returned or panicked. *)
Waiting == wpc \in {"select", "polling", "diag"}
WaitOver == wpc \in {"done", "panicked"}

(* A step of WaitUntilRunning is due at once: a select that can proceed, a *)
(* host call whose context is done.                                        *)
Urgent ==
    \/ wpc = "idle"
    \/ wpc = "select" /\ (now >= w.timerAt \/ CtxTimeoutDone)
    \/ wpc = "polling" /\ CtxTimeoutDone
    \/ wpc = "diag" /\ cancelled

Tick ==
    /\ ~Urgent
    /\ now < MaxTime
    /\ now' = now + 1
    /\ UNCHANGED <<host, lifeVars, buildVars, wpc, w, cancelled>>

(***************************************************************************)
(* StartEnvd: the container specification (config and hostConfig) built    *)
(* from the arguments.  A string is a sequence of characters.              *)
(***************************************************************************)
MaxStrLen == 3
MaxMounts == 2
MaxGPUs == 2

Chars == {":", "a"}
Strings == UNION {[1..n -> Chars] : n \in 0..MaxStrLen}
MountLists == UNION {[1..n -> Strings] : n \in 0..MaxMounts}
Ports == {2222, 8888}
BuildContexts == {<<"proj">>, <<"home", "me", "proj">>}

(* strings.Split(s, ":"): the segments between the colons of s, from       *)
(* position i on, seg being the segment read so far.                       *)
RECURSIVE SplitFrom(_, _, _)
SplitFrom(s, i, seg) ==
    IF i > Len(s) THEN <<seg>>
    ELSE IF s[i] = ":" THEN <<seg>> \o SplitFrom(s, i + 1, <<>>)
    ELSE SplitFrom(s, i + 1, Append(seg, s[i]))

Split(s) == SplitFrom(s, 1, <<>>)

(* fileutil.Base(buildContext) joined under /home/envd. *)
WorkingDir(buildContext) == <<"home", "envd", buildContext[Len(buildContext)]>>

BindMount(source, target) == [type |-> "bind", source |-> source, target |-> target]

ErrInvalidMount == New("Invalid mount options")
ErrNoFreePort(err) == Wrap(err, "failed to get a free port")

(* The loop over mountOptionsStr from entry i on, acc being the mounts set *)
(* so far, and then the mount of the build context.                        *)
RECURSIVE MountLoop(_, _, _, _)
MountLoop(options, i, acc, buildContext) ==
    IF i > Len(options)
    THEN [err |-> NoError, option |-> <<>>,
          mounts |-> Append(acc, BindMount(buildContext, WorkingDir(buildContext)))]
    ELSE LET mStr == Split(options[i])
         IN IF Len(mStr) # 2
            THEN [err |-> ErrInvalidMount, option |-> options[i], mounts |-> <<>>]
            ELSE MountLoop(options, i + 1, Append(acc, BindMount(mStr[1], mStr[2])), buildContext)

MountOptions(options, buildContext) == MountLoop(options, 1, <<>>, buildContext)

(* netutil.GetFreePort(): a port, or an error. *)
FreePortResults ==
    {[port |-> p, err |-> Nil] : p \in Ports} \cup {[port |-> 0, err |-> ErrHostDown]}

PortBinding(hostPort) == [hostIP |-> "127.0.0.1", hostPort |-> hostPort]

(* m[k] = v, as a Go map assignment. *)
MapSet(m, k, v) == [x \in DOMAIN m \cup {k} |-> IF x = k THEN v ELSE m[x]]

EmptyMap == [x \in {} |-> 0]

(* deviceRequests(count) *)
Capabilities ==
    << <<"gpu">>, <<"nvidia">>, <<"compute">>, <<"compat32">>,
       <<"graphics">>, <<"utility">>, <<"video">>, <<"display">> >>

(* deviceRequests ignoring its argument: the count is always 1. *)
deviceRequestsCountOne(count) ==
    << [driver |-> "nvidia", capabilities |-> Capabilities, count |-> 1] >>

deviceRequests(count) ==
    << [driver |-> "nvidia", capabilities |-> Capabilities, count |-> count] >>

NoBuilt ==
    [err |-> NoError, option |-> <<>>, workingDir |-> <<>>, mounts |-> <<>>,
     portBindings |-> EmptyMap, exposedPorts |-> {}, deviceRequests |-> <<>>,
     freePortCalls |-> 0]

BuildFailed(err, option, calls) ==
    [NoBuilt EXCEPT !.err = err, !.option = option, !.freePortCalls = calls]

(* The body of StartEnvd up to the ContainerCreate call, for the arguments *)
(* r and the answers r.jupyterFree and r.rstudioFree of GetFreePort.       *)
StartEnvdSpec(r) ==
    LET m == MountOptions(r.mountOptionsStr, r.buildContext)
        ssh == MapSet(EmptyMap, "ssh/tcp", PortBinding(r.sshPortInHost))
        withJupyter ==
            IF r.jupyter THEN MapSet(ssh, "jupyter/tcp", PortBinding(r.jupyterFree.port)) ELSE ssh
        withRStudio ==
            IF r.rstudio
            THEN MapSet(withJupyter, "rstudio/tcp", PortBinding(r.rstudioFree.port))
            ELSE withJupyter
        jupyterCalls == IF r.jupyter THEN 1 ELSE 0
        calls == jupyterCalls + (IF r.rstudio THEN 1 ELSE 0)
    IN IF m.err # NoError THEN BuildFailed(m.err, m.option, 0)
       ELSE IF r.jupyter /\ ~r.jupyterFree.err.isNil
       THEN BuildFailed(ErrNoFreePort(r.jupyterFree.err), <<>>, jupyterCalls)
       ELSE IF r.rstudio /\ ~r.rstudioFree.err.isNil
       THEN BuildFailed(ErrNoFreePort(r.rstudioFree.err), <<>>, calls)
       ELSE [err |-> NoError, option |-> <<>>,
             workingDir |-> WorkingDir(r.buildContext),
             mounts |-> m.mounts,
             portBindings |-> withRStudio,
             exposedPorts |-> (IF r.jupyter THEN {"jupyter/tcp"} ELSE {})
                              \cup (IF r.rstudio THEN {"rstudio/tcp"} ELSE {}),
             deviceRequests |-> IF r.gpuEnabled THEN deviceRequests(r.numGPUs) ELSE <<>>,
             freePortCalls |-> calls]

Request(name, bc, gpu, n, ssh, j, jf, rs, rf, mo) ==
    [name |-> name, buildContext |-> bc, gpuEnabled |-> gpu, numGPUs |-> n,
     sshPortInHost |-> ssh, jupyter |-> j, jupyterFree |-> jf,
     rstudio |-> rs, rstudioFree |-> rf, mountOptionsStr |-> mo]

NoRequest ==
    Request("", <<"proj">>, FALSE, 0, 0, FALSE, [port |-> 0, err |-> Nil],
            FALSE, [port |-> 0, err |-> Nil], <<>>)

(* The calls checked: every list of mount options with the other arguments *)
(* fixed, and every choice of the other arguments with a few mount lists.  *)
SampleMounts == {<<>>, << <<"a", ":", "a">> >>, << <<"a">> >>}

Requests ==
    {Request("envd", <<"proj">>, FALSE, 0, 2222, FALSE, [port |-> 0, err |-> Nil],
             FALSE, [port |-> 0, err |-> Nil], mo) : mo \in MountLists}
    \cup
    {Request("envd", bc, gpu, n, ssh, j, jf, rs, rf, mo) :
        bc \in BuildContexts, gpu \in BOOLEAN, n \in 0..MaxGPUs, ssh \in Ports,
        j \in BOOLEAN, jf \in FreePortResults, rs \in BOOLEAN, rf \in FreePortResults,
        mo \in SampleMounts}

(* StartEnvd assembles the specification, or fails while doing so. *)
StartEnvdBuild ==
    /\ spc = "idle"
    /\ built' = StartEnvdSpec(req)
    /\ spc' = IF built'.err = NoError THEN "built" ELSE "failed"
    /\ UNCHANGED <<host, lifeVars, waitVars, req, run>>

(***************************************************************************)
(* StartEnvd, after the specification is built: ContainerCreate,           *)
(* ContainerStart, GetContainer and WaitUntilRunning, each returning at    *)
(* its first failure.                                                      *)
(***************************************************************************)
MaxAttempts == 2

PhNameInUse == "is already in use"
ErrNameInUse == HostErr({PhNameInUse}, FALSE)
ErrPortAllocated == HostErr({PhPortAllocated}, FALSE)
ErrStartPaused == HostErr({"cannot start a paused container"}, FALSE)

(* The host creates the container under a name nobody holds. *)
ContainerCreate(s) ==
    IF s = "absent"
    THEN [err |-> Nil, st |-> "created"]
    ELSE [err |-> ErrNameInUse, st |-> s]

(* The host starts a container that is there and not paused. *)
ContainerStart(s) ==
    CASE s = "absent" -> [err |-> ErrNoSuch, st |-> s]
      [] s = "paused" -> [err |-> ErrStartPaused, st |-> s]
      [] OTHER -> [err |-> Nil, st |-> "running"]

(* The replies to ContainerStart: those of any host call and, for a        *)
(* container that is not up, the failure to bind a requested host port     *)
(* that something else holds.                                              *)
StartReplies(s) ==
    Replies(ContainerStart(s), s)
    \cup (IF s \in {"created", "exited"}
          THEN {[fault |-> FALSE, err |-> ErrPortAllocated, st |-> s]}
          ELSE {})

ErrPortConflict == New("jupyter port is already allocated in the host")

NoRun ==
    [attempt |-> 1,
     created |-> FALSE,       \* ContainerCreate succeeded in this call
     createPre |-> "absent",  \* the container's state when ContainerCreate arrived
     createFault |-> FALSE,   \* ContainerCreate failed on the way
     starts |-> 0,            \* ContainerStart calls issued
     startErr |-> Nil,        \* the error of ContainerStart
     inspects |-> 0,          \* GetContainer calls issued by StartEnvd itself
     waits |-> 0,             \* WaitUntilRunning calls issued
     touched |-> FALSE,       \* somebody else changed the container since Create
     postCreate |-> "absent", \* the container's state when the call ended
     ret |-> "", err |-> NoError,
     prevCreated |-> FALSE,   \* the call before this one failed after its Create
     prevTouched |-> FALSE,   \* ... and somebody else changed the container since
     destroyed |-> FALSE]     \* Destroy was called between that call and this one

(* StartEnvd returns ("", "", err). *)
StartEnvdFail(rec, err, st) ==
    /\ spc' = "failed"
    /\ run' = [rec EXCEPT !.ret = "", !.err = err, !.postCreate = st]

(* StartEnvdAfterStart with a clean-up: a failed start removes the         *)
(* container it created.                                                   *)
StartEnvdAfterStartCleansUp(rec, r) ==
    IF ~r.err.isNil
    THEN /\ host' = [host EXCEPT ![req.name] = "absent"]
         /\ IF Contains(r.err, PhPortAllocated)
            THEN StartEnvdFail(rec, ErrPortConflict, "absent")
            ELSE StartEnvdFail(rec, Wrap(r.err, "failed to run the container"), "absent")
    ELSE /\ host' = [host EXCEPT ![req.name] = r.st]
         /\ spc' = "started"
         /\ run' = rec

(* StartEnvdAfterStart without the port check: every start failure is the  *)
(* generic one.                                                            *)
StartEnvdAfterStartNoPortCheck(rec, r) ==
    /\ host' = [host EXCEPT ![req.name] = r.st]
    /\ IF ~r.err.isNil
       THEN StartEnvdFail(rec, Wrap(r.err, "failed to run the container"), r.st)
       ELSE /\ spc' = "started"
            /\ run' = rec

(* What StartEnvd does with the reply r of ContainerStart. *)
StartEnvdAfterStart(rec, r) ==
    /\ host' = [host EXCEPT ![req.name] = r.st]
    /\ IF ~r.err.isNil
       THEN IF Contains(r.err, PhPortAllocated)
            THEN StartEnvdFail(rec, ErrPortConflict, r.st)
            ELSE StartEnvdFail(rec, Wrap(r.err, "failed to run the container"), r.st)
       ELSE /\ spc' = "started"
            /\ run' = rec

(* resp, err := c.ContainerCreate(ctx, config, hostConfig, nil, nil, name) *)
StartEnvdCreate ==
    /\ spc = "built"
    /\ \E r \in Replies(ContainerCreate(host[req.name]), host[req.name]) :
         LET rec == [run EXCEPT !.createPre = host[req.name], !.createFault = r.fault,
                                !.created = r.err.isNil]
         IN /\ host' = [host EXCEPT ![req.name] = r.st]
            /\ IF ~r.err.isNil
               THEN StartEnvdFail(rec, Wrap(r.err, "failed to create the container"), r.st)
               ELSE spc' = "created" /\ run' = rec
    /\ UNCHANGED <<lifeVars, waitVars, req, built>>

(* c.ContainerStart(ctx, resp.ID, ...) *)
StartEnvdStart ==
    /\ spc = "created"
    /\ \E r \in StartReplies(host[req.name]) :
         StartEnvdAfterStart([run EXCEPT !.starts = run.starts + 1, !.startErr = r.err], r)
    /\ UNCHANGED <<lifeVars, waitVars, req, built>>

(* container, err := c.GetContainer(ctx, resp.ID) *)
StartEnvdInspect ==
    /\ spc = "started"
    /\ \E r \in InspectReplies(host[req.name]) :
         LET rec == [run EXCEPT !.inspects = run.inspects + 1]
         IN IF ~r.err.isNil
            THEN StartEnvdFail(rec, Wrap(r.err, "failed to inspect the container"), host[req.name])
            ELSE spc' = "inspected" /\ run' = rec
    /\ UNCHANGED <<host, lifeVars, waitVars, req, built>>

(* c.WaitUntilRunning(ctx, container.Name, timeout) is called. *)
StartEnvdWait(timeout) ==
    /\ spc = "inspected"
    /\ wpc = "idle"
    /\ WaitBegin(req.name, timeout)
    /\ spc' = "waiting"
    /\ run' = [run EXCEPT !.waits = run.waits + 1]
    /\ UNCHANGED <<host, lifeVars, now, cancelled, req, built>>

(* WaitUntilRunning is over: StartEnvd returns the wrapped error or the    *)
(* container's name, or the panic of the wait goes up through it.          *)
StartEnvdReturn ==
    /\ spc = "waiting"
    /\ wpc \in {"done", "panicked"}
    /\ IF wpc = "panicked"
       THEN spc' = "panicked" /\ run' = [run EXCEPT !.postCreate = host[req.name]]
       ELSE IF w.err # NoError
       THEN StartEnvdFail(run, Wrap(w.err, "failed to wait until the container is running"),
                          host[req.name])
       ELSE /\ spc' = "done"
            /\ run' = [run EXCEPT !.ret = w.name, !.postCreate = host[req.name]]
    /\ UNCHANGED <<host, lifeVars, waitVars, req, built>>

(* After the Create of this StartEnvd, another actor changes the           *)
(* container (once).                                                       *)
Interfere ==
    /\ spc \in {"created", "started", "inspected", "waiting", "failed", "panicked"}
    /\ run.created
    /\ ~run.touched
    /\ OtherActorMove(req.name)
    /\ run' = [run EXCEPT !.touched = TRUE]
    /\ UNCHANGED <<lifeVars, waitVars, spc, req, built>>

(* The caller calls Destroy on the name after a StartEnvd that failed. *)
DestroyAfterFailure ==
    /\ spc \in {"failed", "panicked"}
    /\ \/ DestroyKill(req.name)
       \/ DestroyRemove

(* The caller calls StartEnvd again, with the same arguments. *)
StartEnvdAgain ==
    /\ spc \in {"failed", "panicked"}
    /\ pc = "idle"
    /\ run.attempt < MaxAttempts
    /\ spc' = "idle"
    /\ built' = NoBuilt
    /\ run' = [NoRun EXCEPT !.attempt = run.attempt + 1,
                            !.prevCreated = run.created,
                            !.prevTouched = run.touched,
                            !.destroyed = (last.op = "Destroy")]
    /\ now' = 0
    /\ wpc' = "idle"
    /\ w' = NoWait
    /\ cancelled' = FALSE
    /\ UNCHANGED <<host, lifeVars, req>>

Init ==
    /\ host \in [Names -> ContainerStates]
    /\ pc = "idle"
    /\ cur = NoCall
    /\ last = NoCall
    /\ prev = Summary(NoCall)
    /\ now = 0
    /\ wpc = "idle"
    /\ w = NoWait
    /\ cancelled = FALSE
    /\ spc = "idle"
    /\ req = NoRequest
    /\ built = NoBuilt
    /\ run = NoRun

Next ==
    \E name \in Names :
        \/ DestroyKill(name)
        \/ DestroyRemove
        \/ PauseContainer(name)
        \/ ResumeContainer(name)
        \/ Exists(name)
        \/ IsRunning(name)
        \/ OtherActor(name)

Spec == Init /\ [][Next]_vars

(* WaitUntilRunning of one container for one timeout, against the clock,   *)
(* the host and the caller's context.                                      *)
NextWait ==
    \/ \E name \in Names, timeout \in 0..MaxTimeout : WaitStart(name, timeout)
    \/ SelectTimer
    \/ PollReturn
    \/ SelectDone
    \/ DiagReturn
    \/ Cancel
    \/ Tick
    \/ \E name \in Names : OtherActor(name)

SpecWait == Init /\ [][NextWait]_vars

(* One StartEnvd call for each of the requests. *)
InitBuild ==
    /\ host = [n \in Names |-> "absent"]
    /\ pc = "idle"
    /\ cur = NoCall
    /\ last = NoCall
    /\ prev = Summary(NoCall)
    /\ now = 0
    /\ wpc = "idle"
    /\ w = NoWait
    /\ cancelled = FALSE
    /\ spc = "idle"
    /\ req \in Requests
    /\ built = NoBuilt
    /\ run = NoRun

NextBuild == StartEnvdBuild

SpecBuild == InitBuild /\ [][NextBuild]_vars

(* StartEnvd calls for one name, one after another, on a shared host.      *)
MaxStartTimeout == 3
StartTimeouts == {0, MaxStartTimeout}

(* The calls checked: one without optional services, one whose jupyter     *)
(* port cannot be had, one with a malformed mount option.                  *)
StartRequests ==
    {Request("envd", <<"proj">>, FALSE, 0, 2222, FALSE, [port |-> 0, err |-> Nil],
             FALSE, [port |-> 0, err |-> Nil], <<>>),
     Request("envd", <<"proj">>, FALSE, 0, 2222, TRUE, [port |-> 0, err |-> ErrHostDown],
             FALSE, [port |-> 0, err |-> Nil], <<>>),
     Request("envd", <<"proj">>, FALSE, 0, 2222, FALSE, [port |-> 0, err |-> Nil],
             FALSE, [port |-> 0, err |-> Nil], << <<"a">> >>)}

InitStart ==
    /\ host \in {h \in [Names -> ContainerStates] : h["other"] = "absent"}
    /\ pc = "idle"
    /\ cur = NoCall
    /\ last = NoCall
    /\ prev = Summary(NoCall)
    /\ now = 0
    /\ wpc = "idle"
    /\ w = NoWait
    /\ cancelled = FALSE
    /\ spc = "idle"
    /\ req \in StartRequests
    /\ built = NoBuilt
    /\ run = NoRun

NextStart ==
    \/ StartEnvdBuild
    \/ StartEnvdCreate
    \/ StartEnvdStart
    \/ StartEnvdInspect
    \/ \E timeout \in StartTimeouts : StartEnvdWait(timeout)
    \/ SelectTimer
    \/ PollReturn
    \/ SelectDone
    \/ DiagReturn
    \/ Waiting /\ Tick
    \/ StartEnvdReturn
    \/ Interfere
    \/ DestroyAfterFailure
    \/ StartEnvdAgain

SpecStart == InitStart /\ [][NextStart]_vars

(***************************************************************************)
(* Properties of the lifecycle operations (specification Spec).            *)
(***************************************************************************)

ErrNotFound == New("container not found")

(* C1: Destroy is idempotent.  A Destroy whose Kill is answered "No such   *)
(* container" returns success ("" and no error) and issues no Remove; a    *)
(* Destroy that follows a Destroy of the same name which removed the       *)
(* container, and finds it still absent, succeeds; and the first Destroy   *)
(* succeeds from every container state when the host answers both calls    *)
(* and nobody else touches the container between its Kill and its Remove.  *)
C1_DestroyIdempotent ==
    last.op = "Destroy" =>
        /\ Contains(last.herr, PhNoSuch) =>
              last.err = NoError /\ last.ret = "" /\ last.removes = 0
        /\ ( /\ prev.op = "Destroy" /\ prev.name = last.name
             /\ prev.ok /\ prev.ret = prev.name
             /\ last.pre = "absent" /\ ~last.fault )
           => last.err = NoError /\ last.removes = 0
        /\ (~last.fault /\ (last.removes = 1 => last.rpre = ContainerKill(last.pre).st))
           => /\ last.err = NoError
              /\ last.post = "absent"
              /\ last.ret = IF last.pre = "absent" THEN "" ELSE last.name

(* The second of two Destroy calls in sequence on one name has returned,   *)
(* the first having removed the container.                                 *)
C1_Witness ==
    /\ prev.op = "Destroy" /\ prev.name = "envd" /\ prev.ok /\ prev.ret = "envd"
    /\ last.op = "Destroy" /\ last.name = "envd" /\ last.pre = "absent"
    /\ ~last.fault /\ last.err = NoError /\ last.removes = 0
    /\ pc = "idle"

(* C2: PauseContainer on a container the host reports as already paused    *)
(* returns no error and leaves the container paused, however many Pause    *)
(* calls came before.                                                      *)
C2_PauseAlreadyPaused ==
    (last.op = "Pause" /\ Contains(last.herr, PhAlreadyPaused)) =>
        /\ last.err = NoError
        /\ last.pre = "paused" /\ last.post = "paused"

(* A Pause of an already paused container has returned, right after another *)
(* Pause of the same container.                                            *)
C2_Witness ==
    /\ prev.op = "Pause" /\ prev.name = "envd" /\ prev.ok
    /\ last.op = "Pause" /\ last.name = "envd"
    /\ last.pre = "paused" /\ Contains(last.herr, PhAlreadyPaused)
    /\ last.err = NoError /\ last.post = "paused"

(* C3: ResumeContainer on an existing container that is not paused, when   *)
(* the host answers, returns no error and leaves the container in the      *)
(* state it was in.                                                        *)
C3_ResumeNotPaused ==
    (last.op = "Resume" /\ last.pre \in {"created", "running", "exited"} /\ ~last.fault) =>
        /\ last.err = NoError
        /\ last.post = last.pre

(* A Resume of a running container has returned. *)
C3_Witness ==
    /\ last.op = "Resume" /\ last.pre = "running" /\ ~last.fault
    /\ last.err = NoError /\ last.post = "running"

(* C4: PauseContainer and ResumeContainer return the error "container not  *)
(* found", and not success, exactly when the host reports no such          *)
(* container; every other failure is returned wrapped, with another        *)
(* message; and a call on a missing container leaves it missing.           *)
C4_PauseResumeNotFound ==
    last.op \in {"Pause", "Resume"} =>
        /\ (last.pre = "absent" /\ ~last.fault) =>
              last.err = ErrNotFound /\ last.ret = "" /\ last.post = "absent"
        /\ last.err = ErrNotFound <=> Contains(last.herr, PhNoSuch)
        /\ (~last.herr.isNil /\ ~Contains(last.herr, PhNoSuch) /\ last.err # NoError) =>
              /\ last.err.kind = "wrap"
              /\ last.err.msg # ErrNotFound.msg
              /\ last.err.cause = last.herr
              /\ last.post = last.pre

(* Both have happened: a Pause and then a Resume of a missing container    *)
(* returned "container not found".                                         *)
C4_Witness ==
    /\ prev.op = "Pause" /\ ~prev.ok /\ prev.name = "envd"
    /\ last.op = "Resume" /\ last.name = "envd" /\ last.pre = "absent"
    /\ last.err = ErrNotFound

(* C8: Exists and IsRunning return (false, nil) when the host reports the  *)
(* container as not found; they return any other inspect failure as the    *)
(* error; otherwise Exists returns true and IsRunning the Running flag the *)
(* host reports.  The container is left as it was.                         *)
C8_ExistsIsRunning ==
    last.op \in {"Exists", "IsRunning"} =>
        /\ IsErrNotFound(last.herr) => ~last.val /\ last.err = NoError
        /\ (~last.herr.isNil /\ ~IsErrNotFound(last.herr)) =>
              ~last.val /\ last.err = Raw(last.herr)
        /\ last.herr.isNil =>
              /\ last.err = NoError
              /\ last.op = "Exists" => last.val
              /\ last.op = "IsRunning" => (last.val <=> GetContainer(last.pre).running)
        /\ last.pre = "absent" /\ ~last.fault => IsErrNotFound(last.herr)
        /\ last.post = last.pre

(* IsRunning has answered false without error for a missing container,     *)
(* right after Exists did.                                                 *)
C8_Witness ==
    /\ prev.op = "Exists" /\ prev.ok /\ prev.name = "envd"
    /\ last.op = "IsRunning" /\ last.name = "envd" /\ last.pre = "absent"
    /\ IsErrNotFound(last.herr) /\ ~last.val /\ last.err = NoError

(* C13: in Destroy, a Kill answered "is not running" is not an error:      *)
(* Remove is then issued, exactly once, and Destroy returns the name and   *)
(* no error if that Remove succeeds and the wrapped error of the Remove if *)
(* it fails.                                                               *)
C13_NotRunningThenRemove ==
    /\ (pc = "idle" /\ last.op = "Destroy" /\ Contains(last.herr, PhNotRunning)) =>
          /\ last.removes = 1
          /\ last.err = NoError <=> last.rerr.isNil
          /\ last.err = NoError => last.ret = last.name
          /\ last.err # NoError =>
                last.ret = "" /\ last.err = Wrap(last.rerr, "failed to remove the container")
    /\ (pc = "idle" /\ last.op = "Destroy"
           /\ last.pre \in {"created", "exited"} /\ ~last.herr.isNil /\ ~last.fault) =>
          Contains(last.herr, PhNotRunning)

(* Both have happened: a Destroy of a container that was not running       *)
(* removed it and returned its name, after a Destroy of one that was not   *)
(* running either failed at its Remove.                                    *)
C13_Witness ==
    /\ prev.op = "Destroy" /\ ~prev.ok
    /\ pc = "idle" /\ last.op = "Destroy" /\ last.pre = "exited"
    /\ Contains(last.herr, PhNotRunning)
    /\ last.removes = 1 /\ last.rerr.isNil
    /\ last.err = NoError /\ last.ret = last.name /\ last.post = "absent"

OtherKillFailure(err) ==
    ~err.isNil /\ ~Contains(err, PhNotRunning) /\ ~Contains(err, PhNoSuch)

(* C14: in Destroy, a Kill failure that is neither "is not running" nor    *)
(* "No such container" is fatal: Destroy returns that error wrapped and no *)
(* name, never gets to its Remove, and the container is as it was when     *)
(* Destroy was called.                                                     *)
C14_OtherKillFailureFatal ==
    /\ (last.op = "Destroy" /\ OtherKillFailure(last.herr)) =>
          /\ last.err = Wrap(last.herr, "failed to kill the container")
          /\ last.ret = ""
          /\ last.removes = 0
          /\ last.post = last.pre
    /\ pc = "destroy_remove" => ~OtherKillFailure(cur.herr)

(* A Destroy of a running container whose Kill failed for another reason   *)
(* has returned the error, the container still running.                    *)
C14_Witness ==
    /\ pc = "idle" /\ last.op = "Destroy" /\ last.pre = "running"
    /\ OtherKillFailure(last.herr)
    /\ last.err # NoError /\ last.removes = 0 /\ last.post = "running"

(* C15: whenever Destroy issues Remove and Remove fails, Destroy returns   *)
(* the wrapped error and no name, whatever the failure: also when Remove   *)
(* finds no container because somebody else removed it after this call's   *)
(* Kill.                                                                   *)
C15_RemoveFailureFatal ==
    (last.op = "Destroy" /\ last.removes = 1 /\ ~last.rerr.isNil) =>
        /\ last.err = Wrap(last.rerr, "failed to remove the container")
        /\ last.ret = ""

(* A Destroy killed a running container, somebody else removed it, and the *)
(* Remove of the Destroy found nothing: Destroy returned an error.         *)
C15_Witness ==
    /\ pc = "idle" /\ last.op = "Destroy" /\ last.pre = "running" /\ last.herr.isNil
    /\ last.removes = 1 /\ last.rpre = "absent" /\ Contains(last.rerr, PhNoSuch)
    /\ last.err # NoError /\ last.ret = ""

(***************************************************************************)
(* Properties of WaitUntilRunning (specification SpecWait).                *)
(***************************************************************************)

(* C5: WaitUntilRunning ends by returning exactly one outcome: success, at *)
(* the poll that observed the container running and with no later poll or  *)
(* inspection, or else the TimedOut error when no poll observed it running.*)
C5_WaitOutcome ==
    WaitOver =>
        /\ wpc = "done"
        /\ IF w.sawRunning
           THEN w.err = NoError /\ w.diags = 0
           ELSE w.err = ErrTimeout /\ w.diags = 1

(* C6: WaitUntilRunning never blocks past the deadline plus one poll       *)
(* interval: while the call has not returned, the clock is at most there.  *)
C6_NoBlockingPastDeadline ==
    Waiting => now <= w.deadline + interval

(* C7: once the caller's context is cancelled during the wait, no further  *)
(* IsRunning query is issued, no time passes before the call is over, and  *)
(* the call ends by returning an error, at the moment of the cancellation. *)
C7_CancelStopsWait ==
    cancelled =>
        /\ w.latePolls = 0
        /\ Waiting => now = w.cancelAt
        /\ WaitOver => wpc = "done" /\ w.err # NoError /\ w.retAt = w.cancelAt

ErrPollFailed(cause) == Wrap(cause, "failed to check if container is running")

(* C16: WaitUntilRunning issues no IsRunning query before one full         *)
(* interval has passed since the call, and none before one full interval   *)
(* has passed since the query before it, whatever the container's state;   *)
(* and with a timeout shorter than the interval it issues none at all.     *)
C16_NoZeroDelayPoll ==
    wpc # "idle" =>
        /\ w.polls >= 1 => w.pollAt >= (w.deadline - w.timeout) + interval
        /\ w.polls >= 2 => w.pollAt >= w.prevPollAt + interval
        /\ w.timeout < interval => w.polls = 0

(* A wait for a container that was running all along has returned success  *)
(* at its first query, one interval after the call.                        *)
C16_Witness ==
    /\ wpc = "done" /\ w.sawRunning /\ w.err = NoError
    /\ w.polls = 1 /\ w.pollAt = interval /\ w.retAt = interval
    /\ w.timeout > interval
    /\ host[w.name] = "running"

C18_DiagnosticNeverChangesOutcome ==
    w.diags >= 1 =>
        /\ w.diags = 1
        /\ ~w.sawRunning
        /\ wpc \in {"diag", "done"}
        /\ wpc = "done" => w.err = ErrTimeout

(* Every query of the call, polls and diagnostic inspection, found no      *)
(* container under the name.                                               *)
AlwaysMissing ==
    /\ w.absentPolls = w.polls
    /\ w.diags = 1 => IsErrNotFound(w.diagErr)

(* C20: a WaitUntilRunning all of whose queries find no container does not *)
(* end before the deadline, and ends by returning the timeout error.       *)
C20_MissingContainerTimesOut ==
    (WaitOver /\ AlwaysMissing) =>
        /\ w.retAt >= w.deadline
        /\ w.diags = 1
        /\ wpc = "done" /\ w.err = ErrTimeout

(***************************************************************************)
(* Properties of the specification StartEnvd builds (specification         *)
(* SpecBuild).                                                             *)
(***************************************************************************)

BuildOver == spc \in {"built", "failed"}

(* A mount option of the form host:container: one colon, with something    *)
(* before it and something after it.                                       *)
WellFormedMount(s) ==
    /\ Cardinality({i \in 1..Len(s) : s[i] = ":"}) = 1
    /\ s[1] # ":"
    /\ s[Len(s)] # ":"

HostPart(s) == SubSeq(s, 1, (CHOOSE i \in 1..Len(s) : s[i] = ":") - 1)
ContainerPart(s) == SubSeq(s, (CHOOSE i \in 1..Len(s) : s[i] = ":") + 1, Len(s))

(* C9: if some mount option is not of the form host:container with both    *)
(* parts non-empty, StartEnvd fails with the invalid-mount error naming    *)
(* such an entry; if all are, and the build succeeds, the mounts are one   *)
(* bind mount per option, in order, and then the build-context mount.      *)
C9_MountValidation ==
    BuildOver =>
        LET options == req.mountOptionsStr
            bad == {i \in 1..Len(options) : ~WellFormedMount(options[i])}
        IN IF bad # {}
           THEN /\ spc = "failed"
                /\ built.err = ErrInvalidMount
                /\ \E i \in bad : built.option = options[i]
           ELSE spc = "built" =>
                  built.mounts =
                    [i \in 1..(Len(options) + 1) |->
                       IF i <= Len(options)
                       THEN BindMount(HostPart(options[i]), ContainerPart(options[i]))
                       ELSE BindMount(req.buildContext, WorkingDir(req.buildContext))]

(* C10: when jupyter and rstudio are both declared, the port bindings of a *)
(* built specification (ssh, jupyter, rstudio) have pairwise distinct host *)
(* ports; a build whose ports collide fails instead.                       *)
C10_DistinctHostPorts ==
    (spc = "built" /\ req.jupyter /\ req.rstudio) =>
        \A a, b \in DOMAIN built.portBindings :
            a # b => built.portBindings[a].hostPort # built.portBindings[b].hostPort

(* C11: a built specification has exactly one device request when          *)
(* gpuEnabled is true, with driver nvidia, the eight capability entries    *)
(* gpu, nvidia, compute, compat32, graphics, utility, video, display and   *)
(* count numGPUs; and no device request when gpuEnabled is false, whatever *)
(* numGPUs is.                                                             *)
C11_GPUDeviceRequest ==
    spc = "built" =>
        IF req.gpuEnabled
        THEN /\ Len(built.deviceRequests) = 1
             /\ built.deviceRequests[1].driver = "nvidia"
             /\ Len(built.deviceRequests[1].capabilities) = 8
             /\ {built.deviceRequests[1].capabilities[i] : i \in 1..8} =
                   {<<"gpu">>, <<"nvidia">>, <<"compute">>, <<"compat32">>,
                    <<"graphics">>, <<"utility">>, <<"video">>, <<"display">>}
             /\ built.deviceRequests[1].count = req.numGPUs
        ELSE Len(built.deviceRequests) = 0

(* A specification was built with the GPU enabled and the largest count. *)
C11_Witness ==
    /\ spc = "built" /\ req.gpuEnabled /\ req.numGPUs = MaxGPUs
    /\ Len(built.deviceRequests) = 1
    /\ built.deviceRequests[1].count = MaxGPUs

(***************************************************************************)
(* Properties of StartEnvd as a whole (specification SpecStart).           *)
(***************************************************************************)

StartFailed == run.starts = 1 /\ ~run.startErr.isNil

(* C12: when ContainerStart fails, StartEnvd returns an error and no       *)
(* container name, and never calls GetContainer or WaitUntilRunning; the   *)
(* error is the port-conflict error exactly when the host reported that a  *)
(* requested port is already allocated, and the host's error wrapped as    *)
(* "failed to run the container", a different error, for every other       *)
(* start failure.                                                          *)
C12_PortConflict ==
    StartFailed =>
        /\ spc = "failed"
        /\ run.ret = ""
        /\ run.inspects = 0 /\ run.waits = 0 /\ wpc = "idle" /\ w.polls = 0
        /\ run.err = IF run.startErr = ErrPortAllocated
                     THEN ErrPortConflict
                     ELSE Wrap(run.startErr, "failed to run the container")
        /\ run.err = ErrPortConflict <=> run.startErr = ErrPortAllocated

(* A StartEnvd whose container could not be started because a port was     *)
(* taken has returned the port-conflict error.                             *)
C12_Witness ==
    /\ spc = "failed" /\ run.created /\ run.starts = 1
    /\ run.startErr = ErrPortAllocated
    /\ run.err = ErrPortConflict /\ run.ret = "" /\ run.waits = 0

ErrCreateFailed(cause) == Wrap(cause, "failed to create the container")

(* The StartEnvd call ended without success after its ContainerCreate had  *)
(* succeeded.                                                              *)
FailedAfterCreate == spc \in {"failed", "panicked"} /\ run.created

(* C19: a StartEnvd that fails after its Create succeeded leaves the       *)
(* container on the host: unless somebody else changed it, it is there,    *)
(* created or running, when the call ends.  A following StartEnvd of the   *)
(* same name, with no Destroy and nobody else in between, then finds the   *)
(* name taken at its Create and fails there, with the host's name-in-use   *)
(* error wrapped if the host answered.                                     *)
C19_FailedStartLeavesContainer ==
    /\ (FailedAfterCreate /\ ~run.touched) => run.postCreate \in {"created", "running"}
    /\ (run.prevCreated /\ ~run.prevTouched /\ ~run.destroyed
           /\ spc \notin {"idle", "built"}) =>
          /\ spc = "failed" /\ ~run.created /\ run.ret = ""
          /\ run.createPre \in {"created", "running"}
          /\ run.starts = 0 /\ run.waits = 0
          /\ run.err = IF run.createFault
                       THEN ErrCreateFailed(ErrHostDown)
                       ELSE ErrCreateFailed(ErrNameInUse)

(* A second StartEnvd failed at its Create because the name was taken by   *)
(* the container the first one had created before it failed, nobody having *)
(* destroyed or changed it in between.                                     *)
C19_Witness ==
    /\ run.attempt = 2 /\ run.prevCreated /\ ~run.prevTouched /\ ~run.destroyed
    /\ spc = "failed" /\ run.createPre = "created"
    /\ run.err = ErrCreateFailed(ErrNameInUse)

====
